---- MODULE Spec2Model ----
(***************************************************************************)
(* Model of st2common/util/output_schema.py: validate_output and its       *)
(* helpers (_validate_runner, _prepare_action_schema,                      *)
(* output_schema_secret_masking, _validate_action).                        *)
(*                                                                         *)
(* One call of validate_output is followed from its entry to its return.   *)
(* The arguments are drawn from bounded sets in Init.  A Python text is a   *)
(* sequence of fragments, a JSON value is a record [t, s, o] (type tag,    *)
(* text of a scalar, members of an object), a dict is a function on its    *)
(* keys, and a schema's property dict, whose iteration order the masking   *)
(* loop depends on, is a sequence of <<key, sub-schema>> pairs.            *)
(***************************************************************************)
EXTENDS Integers, Sequences, FiniteSets, TLC

VARIABLES
    runner_schema,   \* argument: [present, props]
    action_schema,   \* argument: [present, props]
    output_key,      \* argument
    caller_result,   \* content of the dict object the caller passed as result
    result,          \* local name `result`: [ref |-> "arg"] or a new dict
    status,          \* local name `status`
    final_result,    \* what _validate_action holds after masking
    exc,             \* exception in flight: [type, msg, tb]
    pc,              \* position in validate_output
    calls,           \* helpers entered so far, in order
    validated,       \* instances handed to schema.validate, in order
    in_result,       \* content of result when the call was made
    in_status        \* status when the call was made

vars == <<runner_schema, action_schema, output_key, caller_result, result,
          status, final_result, exc, pc, calls, validated, in_result, in_status>>

-----------------------------------------------------------------------------
(* Bounds of the model. *)

\* number of property names an action schema and a sub-result draw from
MaxProps == 2

PropNames == SubSeq(<<"a", "b", "c">>, 1, MaxProps)

PropKeys == {PropNames[i] : i \in 1..Len(PropNames)}

\* top-level keys of a result: the output key and one more key
TopKeys == {"out", "error"}

OutputKeys == {"out"}

Statuses == {"succeeded", "timeout", "failed"}

-----------------------------------------------------------------------------
(* Values. *)

NoMembers == [k \in {} |-> 0]

StrVal(text) == [t |-> "string", s |-> text, o |-> NoMembers]

IntVal(text) == [t |-> "integer", s |-> text, o |-> NoMembers]

ObjVal(members) == [t |-> "object", s |-> <<>>, o |-> members]

\* st2common.constants.secrets.MASKED_ATTRIBUTE_VALUE
MASKED_ATTRIBUTE_VALUE == StrVal(<<"********">>)

\* st2common.constants.action.LIVEACTION_STATUS_FAILED
LIVEACTION_STATUS_FAILED == "failed"

ERROR_MESSAGE == StrVal(<<"Error validating output. See error output for more details.">>)

\* d[k] = v on a dict given as a function
Put(d, k, v) == [x \in (DOMAIN d) \cup {k} |-> IF x = k THEN v ELSE d[x]]

\* a sub-schema: a dict with an optional "type" and an optional "secret", or
\* something that is not a dict at all
SubSchema(type, secret) == [isdict |-> TRUE, type |-> type, secret |-> secret]

NotADict == [isdict |-> FALSE, type |-> "none", secret |-> FALSE]

None == [present |-> FALSE, props |-> <<>>]

Dict(props) == [present |-> TRUE, props |-> props]

\* Python truth value of a schema argument: None and {} are falsy
Truthy(schema) == schema.present /\ Len(schema.props) > 0

Keys(props) == {props[i][1] : i \in 1..Len(props)}

Lookup(props, key) == props[CHOOSE i \in 1..Len(props) : props[i][1] = key][2]

NoExc == [type |-> "none", msg |-> <<>>, tb |-> <<>>]

Raise(type, msg, tb) == [type |-> type, msg |-> msg, tb |-> tb]

-----------------------------------------------------------------------------
(* schema.validate(instance, schema, cls=schema.get_validator("custom")):   *)
(* the schema is checked first, then the instance against it.  The result   *)
(* is the exception raised, or NoExc.                                       *)

TypeOk(value, sub) == sub.type = "none" \/ value.t = sub.type

SchemaMalformed(schema) ==
    \E i \in 1..Len(schema.properties) : ~schema.properties[i][2].isdict

Validate(instance, schema, tb) ==
    IF SchemaMalformed(schema)
    THEN Raise("SchemaError", <<"is not valid under any of the given schemas">>, tb)
    ELSE IF instance.t # schema.type
    THEN Raise("ValidationError", <<"is not of type", schema.type>>, tb)
    ELSE IF /\ ~schema.additionalProperties
            /\ (DOMAIN instance.o) \ Keys(schema.properties) # {}
    THEN Raise("ValidationError", <<"Additional properties are not allowed">>, tb)
    ELSE IF \E k \in (DOMAIN instance.o) \cap Keys(schema.properties) :
                ~TypeOk(instance.o[k], Lookup(schema.properties, k))
    THEN Raise("ValidationError", <<"is not of type">>, tb)
    ELSE NoExc

-----------------------------------------------------------------------------
(* Schema assembly. *)

\* the dict literal of _validate_runner
PrepareRunnerSchema(schema) ==
    [type |-> "object", properties |-> schema.props, additionalProperties |-> FALSE]

\* mutant: the assembled action schema is left open
PrepareActionSchema_Open(schema) ==
    [type |-> "object", properties |-> schema.props, additionalProperties |-> TRUE]

_prepare_action_schema(schema) ==
    [type |-> "object", properties |-> schema.props, additionalProperties |-> FALSE]

-----------------------------------------------------------------------------
(* output_schema_secret_masking: the loop over the schema's properties, *)
(* from the i-th on.  The result is the exception raised, if any, and   *)
(* final_result as the loop left it.                                    *)

MaskingFrames == <<"validate_output", "_validate_action", "output_schema_secret_masking">>

\* mutant: every declared property is masked, whatever its secret flag
RECURSIVE MaskFrom_EveryProperty(_, _, _)
MaskFrom_EveryProperty(value, props, i) ==
    IF i > Len(props) THEN [exc |-> NoExc, val |-> value]
    ELSE IF ~props[i][2].isdict
    THEN [exc |-> Raise("AttributeError", <<"object has no attribute 'get'">>, MaskingFrames),
          val |-> value]
    ELSE IF value.t # "object"
    THEN [exc |-> Raise("TypeError", <<"object does not support item assignment">>, MaskingFrames),
          val |-> value]
    ELSE MaskFrom_EveryProperty(ObjVal(Put(value.o, props[i][1], MASKED_ATTRIBUTE_VALUE)),
                                props, i + 1)

RECURSIVE MaskFrom(_, _, _)
MaskFrom(value, props, i) ==
    IF i > Len(props) THEN [exc |-> NoExc, val |-> value]
    ELSE IF ~props[i][2].isdict
    THEN [exc |-> Raise("AttributeError", <<"object has no attribute 'get'">>, MaskingFrames),
          val |-> value]
    ELSE IF ~props[i][2].secret THEN MaskFrom(value, props, i + 1)
    ELSE IF value.t # "object"
    THEN [exc |-> Raise("TypeError", <<"object does not support item assignment">>, MaskingFrames),
          val |-> value]
    ELSE MaskFrom(ObjVal(Put(value.o, props[i][1], MASKED_ATTRIBUTE_VALUE)), props, i + 1)

output_schema_secret_masking(res, key, schema) ==
    IF key \notin DOMAIN res
    THEN [exc |-> Raise("KeyError", <<key>>, MaskingFrames), val |-> StrVal(<<>>)]
    ELSE MaskFrom(res[key], schema.properties, 1)

-----------------------------------------------------------------------------
(* The arguments a call is made with. *)

ScalarValues == {StrVal(<<"v1">>), IntVal(<<"1">>)}

\* result[output_key]: a dict of scalars, or a value that is not a dict
SubResults ==
    {ObjVal(f) : f \in UNION {[D -> ScalarValues] : D \in SUBSET PropKeys}}
        \cup {StrVal(<<"v1">>)}

ValuesAt(key) == IF key \in OutputKeys THEN SubResults ELSE {StrVal(<<"boom">>)}

Results ==
    UNION {{f \in [D -> UNION {ValuesAt(k) : k \in TopKeys}] :
                \A k \in D : f[k] \in ValuesAt(k)} : D \in SUBSET TopKeys}

ActionSubSchemas ==
    {SubSchema("none", FALSE), SubSchema("none", TRUE), SubSchema("string", TRUE),
     SubSchema("integer", TRUE), SubSchema("integer", FALSE), NotADict}

\* property dicts of 1..MaxProps entries, in every insertion order
ActionProps ==
    UNION {{p \in [1..n -> PropKeys \X ActionSubSchemas] :
                \A i, j \in 1..n : p[i][1] = p[j][1] => i = j} : n \in 1..MaxProps}

ActionSchemas == {None, Dict(<<>>)} \cup {Dict(p) : p \in ActionProps}

RunnerProps ==
    {o \o e :
        o \in {<<>>} \cup {<<<<"out", sub>>>> :
                    sub \in {SubSchema("none", FALSE), NotADict}},
        e \in {<<>>, <<<<"error", SubSchema("string", FALSE)>>>>}}

RunnerSchemas == {None} \cup {Dict(p) : p \in RunnerProps}

Init ==
    /\ runner_schema \in RunnerSchemas
    /\ action_schema \in ActionSchemas
    /\ output_key \in OutputKeys
    /\ caller_result \in Results
    /\ status \in Statuses
    /\ result = [ref |-> "arg", val |-> NoMembers]
    /\ final_result = StrVal(<<>>)
    /\ exc = NoExc
    /\ pc = "start"
    /\ calls = <<>>
    /\ validated = <<>>
    /\ in_result = caller_result
    /\ in_status = status

-----------------------------------------------------------------------------
(* validate_output, step by step. *)

args == <<runner_schema, action_schema, output_key, in_result, in_status>>

\* mutant: without a runner schema the action gate is still run
CheckRunnerSchema_ActionGateAnyway ==
    /\ pc = "start"
    /\ pc' = IF Truthy(runner_schema) THEN "validate_runner" ELSE "check_action"
    /\ UNCHANGED <<args, caller_result, result, status, final_result, exc, calls, validated>>

\* line 99: if runner_schema:
CheckRunnerSchema ==
    /\ pc = "start"
    /\ pc' = IF Truthy(runner_schema) THEN "validate_runner" ELSE "return"
    /\ UNCHANGED <<args, caller_result, result, status, final_result, exc, calls, validated>>

\* mutant: the secrets are masked before the runner gate has passed
ValidateRunner_MaskFirst ==
    /\ pc = "validate_runner"
    /\ LET m == output_schema_secret_masking(caller_result, output_key,
                                             _prepare_action_schema(action_schema))
           masked == IF Truthy(action_schema) /\ output_key \in DOMAIN caller_result
                     THEN Put(caller_result, output_key, m.val)
                     ELSE caller_result
           instance == ObjVal(masked)
           raised == Validate(instance, PrepareRunnerSchema(runner_schema),
                              <<"validate_output", "_validate_runner", "validate">>)
       IN  /\ caller_result' = masked
           /\ validated' = Append(validated, instance)
           /\ exc' = raised
           /\ pc' = IF raised = NoExc THEN "check_action" ELSE "except"
    /\ calls' = Append(calls, "_validate_runner")
    /\ UNCHANGED <<args, result, status, final_result>>

\* line 100: _validate_runner(runner_schema, result)
_validate_runner ==
    /\ pc = "validate_runner"
    /\ LET instance == ObjVal(caller_result)
           raised == Validate(instance, PrepareRunnerSchema(runner_schema),
                              <<"validate_output", "_validate_runner", "validate">>)
       IN  /\ validated' = Append(validated, instance)
           /\ exc' = raised
           /\ pc' = IF raised = NoExc THEN "check_action" ELSE "except"
    /\ calls' = Append(calls, "_validate_runner")
    /\ UNCHANGED <<args, caller_result, result, status, final_result>>

\* line 102: if action_schema:
CheckActionSchema ==
    /\ pc = "check_action"
    /\ pc' = IF Truthy(action_schema) THEN "mask" ELSE "return"
    /\ UNCHANGED <<args, caller_result, result, status, final_result, exc, calls, validated>>

\* mutant: the secrets are masked in a copy of result[output_key]
SecretMasking_OnCopy ==
    /\ pc = "mask"
    /\ LET m == output_schema_secret_masking(caller_result, output_key,
                                             _prepare_action_schema(action_schema))
       IN  /\ final_result' = m.val
           /\ exc' = m.exc
           /\ pc' = IF m.exc = NoExc THEN "validate_action" ELSE "except"
    /\ calls' = calls \o <<"_validate_action", "_prepare_action_schema",
                           "output_schema_secret_masking">>
    /\ UNCHANGED <<args, caller_result, result, status, validated>>

\* lines 86-89: the schema is assembled and the secrets are masked, in the
\* caller's dict: final_result is result[output_key] itself, not a copy
SecretMasking ==
    /\ pc = "mask"
    /\ LET m == output_schema_secret_masking(caller_result, output_key,
                                             _prepare_action_schema(action_schema))
       IN  /\ final_result' = m.val
           /\ caller_result' = IF output_key \in DOMAIN caller_result
                               THEN Put(caller_result, output_key, m.val)
                               ELSE caller_result
           /\ exc' = m.exc
           /\ pc' = IF m.exc = NoExc THEN "validate_action" ELSE "except"
    /\ calls' = calls \o <<"_validate_action", "_prepare_action_schema",
                           "output_schema_secret_masking">>
    /\ UNCHANGED <<args, result, status, validated>>

\* mutant: the validator is handed the sub-result as it was before masking
ValidateAction_Unmasked ==
    /\ pc = "validate_action"
    /\ LET raised == Validate(in_result[output_key], _prepare_action_schema(action_schema),
                              <<"validate_output", "_validate_action", "validate">>)
       IN  /\ validated' = Append(validated, in_result[output_key])
           /\ exc' = raised
           /\ pc' = IF raised = NoExc THEN "return" ELSE "except"
    /\ UNCHANGED <<args, caller_result, result, status, final_result, calls>>

\* line 91: schema.validate(final_result, action_schema, ...)
ValidateAction ==
    /\ pc = "validate_action"
    /\ LET raised == Validate(final_result, _prepare_action_schema(action_schema),
                              <<"validate_output", "_validate_action", "validate">>)
       IN  /\ validated' = Append(validated, final_result)
           /\ exc' = raised
           /\ pc' = IF raised = NoExc THEN "return" ELSE "except"
    /\ UNCHANGED <<args, caller_result, result, status, final_result, calls>>

\* traceback.format_tb(tb, 20), joined
TRACEBACK_LIMIT == 20

FormatTb(tb) == StrVal(SubSeq(tb, 1, IF Len(tb) < TRACEBACK_LIMIT THEN Len(tb) ELSE TRACEBACK_LIMIT))

\* mutant: the handler of a schema mismatch reports a traceback too
HandleValidationError_WithTraceback ==
    /\ pc = "except"
    /\ exc.type = "ValidationError"
    /\ status' = LIVEACTION_STATUS_FAILED
    /\ result' = [ref |-> "new",
                  val |-> [k \in {"traceback", "error", "message"} |->
                              IF k = "traceback" THEN FormatTb(exc.tb)
                              ELSE IF k = "error" THEN StrVal(exc.msg) ELSE ERROR_MESSAGE]]
    /\ pc' = "done"
    /\ UNCHANGED <<args, caller_result, final_result, exc, calls, validated>>

\* lines 105-115: except jsonschema.ValidationError
HandleValidationError ==
    /\ pc = "except"
    /\ exc.type = "ValidationError"
    /\ status' = LIVEACTION_STATUS_FAILED
    /\ result' = [ref |-> "new",
                  val |-> [k \in {"error", "message"} |->
                              IF k = "error" THEN StrVal(exc.msg) ELSE ERROR_MESSAGE]]
    /\ pc' = "done"
    /\ UNCHANGED <<args, caller_result, final_result, exc, calls, validated>>

\* mutant: the handler names the exceptions it expects instead of catching all
HandleOtherException_Named ==
    /\ pc = "except"
    /\ exc.type \in {"KeyError", "SchemaError"}
    /\ status' = LIVEACTION_STATUS_FAILED
    /\ result' = [ref |-> "new",
                  val |-> [k \in {"traceback", "error", "message"} |->
                              IF k = "traceback" THEN FormatTb(exc.tb)
                              ELSE IF k = "error" THEN StrVal(exc.msg) ELSE ERROR_MESSAGE]]
    /\ pc' = "done"
    /\ UNCHANGED <<args, caller_result, final_result, exc, calls, validated>>

\* mutant: the handler forgets to mark the execution as failed
HandleOtherException_StatusKept ==
    /\ pc = "except"
    /\ exc.type # "ValidationError"
    /\ result' = [ref |-> "new",
                  val |-> [k \in {"traceback", "error", "message"} |->
                              IF k = "traceback" THEN FormatTb(exc.tb)
                              ELSE IF k = "error" THEN StrVal(exc.msg) ELSE ERROR_MESSAGE]]
    /\ pc' = "done"
    /\ UNCHANGED <<args, caller_result, status, final_result, exc, calls, validated>>

\* lines 116-127: the bare except
HandleOtherException ==
    /\ pc = "except"
    /\ exc.type # "ValidationError"
    /\ status' = LIVEACTION_STATUS_FAILED
    /\ result' = [ref |-> "new",
                  val |-> [k \in {"traceback", "error", "message"} |->
                              IF k = "traceback" THEN FormatTb(exc.tb)
                              ELSE IF k = "error" THEN StrVal(exc.msg) ELSE ERROR_MESSAGE]]
    /\ pc' = "done"
    /\ UNCHANGED <<args, caller_result, final_result, exc, calls, validated>>

\* line 129: return (result, status)
Return ==
    /\ pc = "return"
    /\ pc' = "done"
    /\ UNCHANGED <<args, caller_result, result, status, final_result, exc, calls, validated>>

Next ==
    \/ CheckRunnerSchema
    \/ _validate_runner
    \/ CheckActionSchema
    \/ SecretMasking
    \/ ValidateAction
    \/ HandleValidationError
    \/ HandleOtherException
    \/ Return

Spec == Init /\ [][Next]_vars

-----------------------------------------------------------------------------
(* What the caller gets back. *)

Done == pc = "done"

\* content of the dict the returned result refers to
Returned == IF result.ref = "arg" THEN caller_result ELSE result.val

\* PASS: the caller's own dict and the status it passed
PassOutcome == result.ref = "arg" /\ status = in_status /\ exc = NoExc

DiagnosticKeys == {"error", "message", "traceback"}

\* FAILED: a new diagnostic dict and the failed status
FailedOutcome ==
    /\ result.ref = "new"
    /\ status = LIVEACTION_STATUS_FAILED
    /\ exc # NoExc
    /\ {"error", "message"} \subseteq DOMAIN result.val
    /\ DOMAIN result.val \subseteq DiagnosticKeys

\* the names the action schema flags secret
SecretKeys ==
    {action_schema.props[i][1] : i \in {j \in 1..Len(action_schema.props) :
        action_schema.props[j][2].isdict /\ action_schema.props[j][2].secret}}

HasSubResult(res) == output_key \in DOMAIN res /\ res[output_key].t = "object"

\* the verdict of the runner gate on the result as it was passed
RunnerVerdict == Validate(ObjVal(in_result), PrepareRunnerSchema(runner_schema), <<>>).type

-----------------------------------------------------------------------------
(* Claims. *)

\* C1: with a falsy runner schema (None or {}) the call returns the very same
\* result dict with its content unchanged and the same status, whatever the
\* action schema: nothing is validated, no helper of the action gate is
\* entered and nothing is masked.
C1_NoRunnerSchemaIsNoOp ==
    ~Truthy(runner_schema) =>
        /\ result.ref = "arg"
        /\ caller_result = in_result
        /\ status = in_status
        /\ validated = <<>>
        /\ calls = <<>>
        /\ exc = NoExc

\* C1 witness: a call with the empty runner schema and an action schema that
\* flags a property of the sub-result secret and does not declare another one
\* has returned.
C1_Witness ==
    /\ Done
    /\ runner_schema = Dict(<<>>)
    /\ Truthy(action_schema)
    /\ HasSubResult(in_result)
    /\ SecretKeys \cap DOMAIN in_result[output_key].o # {}
    /\ (DOMAIN in_result[output_key].o) \ Keys(action_schema.props) # {}
    /\ Returned = in_result

\* C2: no exception escapes: in every state the call has returned or has a
\* next step, and what it returns is the PASS outcome or the FAILED
\* diagnostic outcome.
C2_NoExceptionEscapes ==
    /\ Done \/ ENABLED Next
    /\ Done => PassOutcome \/ FailedOutcome

\* C2 witness: a call whose sub-result is not a dict, so that masking raised
\* a TypeError, has returned.
C2_Witness == Done /\ exc.type = "TypeError" /\ FailedOutcome

C4_StatusOnlyDowngraded ==
    /\ status \in {in_status, LIVEACTION_STATUS_FAILED}
    /\ Done => IF exc = NoExc THEN status = in_status
                              ELSE status = LIVEACTION_STATUS_FAILED

\* C4 witness: a call made with status "timeout" has failed with an exception
\* that is not a schema mismatch.
C4_Witness ==
    /\ Done
    /\ in_status = "timeout"
    /\ exc.type \notin {"none", "ValidationError"}
    /\ status = LIVEACTION_STATUS_FAILED

\* C5: when the whole result does not satisfy the assembled runner schema, the
\* outcome is FAILED with a diagnostic, the action gate is never entered (the
\* action schema is neither assembled nor read) and nothing in the caller's
\* result is masked.
C5_RunnerFailureShortCircuits ==
    (Truthy(runner_schema) /\ RunnerVerdict # "none") =>
        /\ caller_result = in_result
        /\ \A i \in 1..Len(calls) : calls[i] = "_validate_runner"
        /\ Len(validated) <= 1
        /\ pc \notin {"check_action", "mask", "validate_action", "return"}
        /\ Done => FailedOutcome

\* C5 witness: the runner gate has failed on a result whose sub-result holds a
\* property the action schema flags secret.
C5_Witness ==
    /\ Done
    /\ Truthy(runner_schema)
    /\ RunnerVerdict = "ValidationError"
    /\ Truthy(action_schema)
    /\ HasSubResult(in_result)
    /\ SecretKeys \cap DOMAIN in_result[output_key].o # {}

\* C6: after a passing validation with a truthy runner schema and a truthy
\* action schema, the returned result[output_key] differs from the input
\* sub-result exactly on the secret-flagged properties: each of them holds the
\* masking sentinel, every other property is as it was, and so is every other
\* top-level key of result.
C6_ExactlySecretsMasked ==
    (Done /\ exc = NoExc /\ Truthy(runner_schema) /\ Truthy(action_schema)) =>
        /\ result.ref = "arg"
        /\ DOMAIN Returned = DOMAIN in_result
        /\ \A k \in (DOMAIN in_result) \ {output_key} : Returned[k] = in_result[k]
        /\ HasSubResult(in_result) /\ HasSubResult(Returned)
        /\ LET before == in_result[output_key].o
               after == Returned[output_key].o
           IN  /\ \A k \in SecretKeys : k \in DOMAIN after /\ after[k] = MASKED_ATTRIBUTE_VALUE
               /\ \A k \in ((DOMAIN before) \cup (DOMAIN after)) \ SecretKeys :
                      k \in DOMAIN before /\ k \in DOMAIN after /\ after[k] = before[k]

\* C6 witness: action schema {a: {secret: true}, b: {}} and result
\* {out: {a: v1, b: v1}} have given out = {a: MASK, b: v1}.
C6_Witness ==
    /\ Done
    /\ exc = NoExc
    /\ Truthy(runner_schema)
    /\ action_schema = Dict(<<<<"a", SubSchema("none", TRUE)>>, <<"b", SubSchema("none", FALSE)>>>>)
    /\ HasSubResult(in_result)
    /\ in_result[output_key].o = [k \in {"a", "b"} |-> StrVal(<<"v1">>)]
    /\ Returned[output_key].o =
           [k \in {"a", "b"} |-> IF k = "a" THEN MASKED_ATTRIBUTE_VALUE ELSE StrVal(<<"v1">>)]

\* C7: the redactor invents no key: once output_schema_secret_masking has run
\* on a sub-result that is a dict, the key set of result[output_key] is what
\* it was before the call.
C7_NoKeyInvented ==
    ("output_schema_secret_masking" \in {calls[i] : i \in 1..Len(calls)}
        /\ HasSubResult(in_result)) =>
        DOMAIN caller_result[output_key].o = DOMAIN in_result[output_key].o

\* C8 as stated: for each schema supplied, a result with a property the schema
\* does not declare ends in FAILED, never in PASS.
C8_Original ==
    (Done /\ \/ /\ Truthy(runner_schema)
                /\ (DOMAIN in_result) \ Keys(runner_schema.props) # {}
             \/ /\ Truthy(action_schema)
                /\ HasSubResult(in_result)
                /\ (DOMAIN in_result[output_key].o) \ Keys(action_schema.props) # {})
        => FailedOutcome

\* C8 as amended: with a truthy runner schema, a result with a top-level
\* property the runner schema does not declare ends in FAILED, and so does a
\* result whose sub-result holds a property a truthy action schema does not
\* declare.  (With a falsy runner schema nothing is validated.)
C8_ClosedSchemas ==
    (Done /\ Truthy(runner_schema)
          /\ \/ (DOMAIN in_result) \ Keys(runner_schema.props) # {}
             \/ /\ Truthy(action_schema)
                /\ HasSubResult(in_result)
                /\ (DOMAIN in_result[output_key].o) \ Keys(action_schema.props) # {})
        => FailedOutcome

\* C8 witness: the runner gate has passed and the action gate has rejected a
\* sub-result holding a property the action schema does not declare, every
\* declared property being of its declared type.
C8_Witness ==
    /\ Done
    /\ Len(validated) = 2
    /\ exc.type = "ValidationError"
    /\ (DOMAIN in_result[output_key].o) \ Keys(action_schema.props) # {}
    /\ \A k \in (DOMAIN validated[2].o) \cap Keys(action_schema.props) :
          TypeOk(validated[2].o[k], Lookup(action_schema.props, k))
    /\ FailedOutcome

\* the sub-result in which every secret-flagged property holds the sentinel
\* and every other property is as the caller passed it
MaskedSubResult ==
    IF ~HasSubResult(in_result) THEN in_result[output_key]
    ELSE ObjVal([k \in (DOMAIN in_result[output_key].o) \cup SecretKeys |->
                    IF k \in SecretKeys THEN MASKED_ATTRIBUTE_VALUE
                    ELSE in_result[output_key].o[k]])

\* C9: in the action gate masking precedes validation and the validator sees
\* the masked sub-result only: the gate's verdict is the verdict on the
\* sub-result with every secret-flagged property holding the (string)
\* sentinel.  A secret property declared of a non-string type therefore
\* fails, whatever its original value.
C9_MaskedBeforeValidated ==
    /\ pc = "validate_action" =>
           /\ final_result = MaskedSubResult
           /\ caller_result[output_key] = MaskedSubResult
    /\ Len(validated) = 2 =>
           /\ validated[2] = MaskedSubResult
           /\ calls = <<"_validate_runner", "_validate_action", "_prepare_action_schema",
                        "output_schema_secret_masking">>
           /\ (exc = NoExc) <=>
                  (Validate(MaskedSubResult, _prepare_action_schema(action_schema), <<>>) = NoExc)
           /\ (\E i \in 1..Len(action_schema.props) :
                  /\ action_schema.props[i][2].secret
                  /\ action_schema.props[i][2].type \notin {"none", "string"})
                => exc.type = "ValidationError"

\* C9 witness: the action gate has passed on a sub-result whose secret
\* property, declared a string, held an integer: unmasked it would have been
\* rejected.
C9_Witness ==
    /\ Done
    /\ Len(validated) = 2
    /\ exc = NoExc
    /\ \E i \in 1..Len(action_schema.props) :
          /\ action_schema.props[i][2] = SubSchema("string", TRUE)
          /\ action_schema.props[i][1] \in DOMAIN in_result[output_key].o
          /\ in_result[output_key].o[action_schema.props[i][1]].t = "integer"
    /\ Validate(in_result[output_key], _prepare_action_schema(action_schema), <<>>).type
           = "ValidationError"

\* an exception was raised inside _validate_action (the runner gate passed)
ActionGateFailed ==
    "_validate_action" \in {calls[i] : i \in 1..Len(calls)} /\ exc # NoExc

====
